---- MODULE Spec2Model ----
(***************************************************************************)
(* The notifications page of the dashboard (Notifications.js), the         *)
(* notificationsService HTTP wrappers it calls, and the notification       *)
(* service of record behind them.  One component instance (one browser     *)
(* session) talks to the server; every request is in flight for a while,   *)
(* is handled by the server at some moment, and its response (or a network *)
(* error) reaches the component at some later moment, in any order.        *)
(***************************************************************************)
EXTENDS Integers, Sequences, FiniteSets, Bags, TLC

\* Bounds of the model.
NumIds == 2
MaxCommands == 3

\* acceptingId: null
NoId == 0
\* error: null, info: null
NoMessage == "null"

Ids == 1..NumIds

VARIABLES
    \* component state (this.state) and this._isMounted
    notifications, loading, error, info, acceptingId, markingIds,
    markAllInProgress, lifecycle,
    \* requests of this session that have not been answered to the component
    requests,
    \* number of requests the user's clicks have sent
    commands,
    \* the server of record
    store, grants, acceptLog

clientVars == <<notifications, loading, error, info, acceptingId, markingIds,
                markAllInProgress>>
serverVars == <<store, grants, acceptLog>>
vars == <<notifications, loading, error, info, acceptingId, markingIds,
          markAllInProgress, lifecycle, requests, commands,
          store, grants, acceptLog>>

---------------------------------------------------------------------------
\* Records

NoInvitation == [present |-> FALSE, accepted |-> FALSE]

Invitation(acc) == [present |-> TRUE, accepted |-> acc]

\* What the store may hold for one notification when the page is opened:
\* isRead is true whenever invitation.accepted is true.
StoredRecords ==
    [notification_type : {"mention"}, is_read : BOOLEAN,
     invitation : {NoInvitation}]
    \cup
    {r \in [notification_type : {"project_invitation"}, is_read : BOOLEAN,
              invitation : {Invitation(FALSE), Invitation(TRUE)}] :
        r.invitation.accepted => r.is_read}

\* The view of stored notification id that the list endpoint returns.
NotificationView(st, id) ==
    [id |-> id,
     notification_type |-> st[id].notification_type,
     title |-> id, message |-> id, project |-> id, created_at |-> id,
     is_read |-> st[id].is_read,
     invitation |-> st[id].invitation]

\* list: all notifications of the recipient, newest first.
listByRecipient(st) ==
    [i \in 1..NumIds |-> NotificationView(st, NumIds + 1 - i)]

Request(kind, id) ==
    [kind |-> kind, id |-> id, phase |-> "sent", outcome |-> "none",
     data |-> <<>>]

isMounted == lifecycle = "mounted"

---------------------------------------------------------------------------
Init ==
    /\ notifications = <<>>
    /\ loading = TRUE
    /\ error = NoMessage
    /\ info = NoMessage
    /\ acceptingId = NoId
    /\ markingIds = {}
    /\ markAllInProgress = FALSE
    /\ lifecycle = "constructed"
    /\ requests = EmptyBag
    /\ commands = 0
    /\ store \in [Ids -> StoredRecords]
    /\ grants = [i \in Ids |-> 0]
    /\ acceptLog = [i \in Ids |-> <<>>]

---------------------------------------------------------------------------
\* The server of record: NotificationStore, InvitationResolver and
\* NotificationService.

\* Outcomes answered with status 200; every other outcome is an error status,
\* which axios turns into a rejected promise.
SuccessOutcomes == {"Listed", "Updated", "NoOp", "Counted", "Accepted",
                    "AlreadyAccepted"}

\* compareAndSetRead(id, expectedRead = false, newRead = true)
compareAndSetRead(st, id) ==
    IF st[id].is_read = FALSE
    THEN [ok |-> TRUE, store |-> [st EXCEPT ![id].is_read = TRUE]]
    ELSE [ok |-> FALSE, store |-> st]

\* markRead: NoOp if already read, otherwise Updated.
markRead(st, id) ==
    LET cas == compareAndSetRead(st, id)
    IN  [outcome |-> IF cas.ok THEN "Updated" ELSE "NoOp", store |-> cas.store]

\* markAllRead: applies markRead to every unread notification of the
\* recipient and returns the number it transitioned.
markAllRead(st) ==
    [outcome |-> "Counted",
     count |-> Cardinality({i \in Ids : st[i].is_read = FALSE}),
     store |-> [i \in Ids |-> [st[i] EXCEPT !.is_read = TRUE]]]

\* The accepted transition without its compare: every caller is told Accepted.
setInvitationAcceptedUnconditionally(st, id) ==
    [outcome |-> "Accepted",
     store |-> [st EXCEPT ![id].invitation.accepted = TRUE]]

\* compareAndSetInvitationAccepted: the not-accepted -> accepted transition,
\* performed atomically, exactly once.
compareAndSetInvitationAccepted(st, id) ==
    IF st[id].invitation.accepted
    THEN [outcome |-> "AlreadyAccepted", store |-> st]
    ELSE [outcome |-> "Accepted",
          store |-> [st EXCEPT ![id].invitation.accepted = TRUE]]

\* resolve: short-circuits on AlreadyAccepted, otherwise issues the
\* membership grant, which the team collaborator may fail.
resolve(st, g, id, grantOk) ==
    LET cas == compareAndSetInvitationAccepted(st, id)
    IN  IF cas.outcome = "AlreadyAccepted"
        THEN [result |-> "AlreadyGranted", store |-> cas.store, grants |-> g]
        ELSE [result |-> IF grantOk THEN "Granted" ELSE "Rejected",
              store |-> cas.store,
              grants |-> [g EXCEPT ![id] = g[id] + 1]]

\* acceptInvitation: InvalidType unless a project invitation; on Granted or
\* AlreadyGranted also forces isRead; on Rejected leaves isRead alone.
acceptInvitation(st, g, id, grantOk) ==
    IF st[id].notification_type # "project_invitation"
    THEN [outcome |-> "InvalidType", store |-> st, grants |-> g]
    ELSE LET r == resolve(st, g, id, grantOk)
         IN  IF r.result = "Rejected"
             THEN [outcome |-> "Rejected", store |-> r.store,
                   grants |-> r.grants]
             ELSE [outcome |-> IF r.result = "Granted" THEN "Accepted"
                               ELSE "AlreadyAccepted",
                   store |-> [r.store EXCEPT ![id].is_read = TRUE],
                   grants |-> r.grants]

Reply(k, outcome, data) ==
    requests' = (requests (-) SetToBag({k})) (+)
                SetToBag({[k EXCEPT !.phase = "replied", !.outcome = outcome,
                                    !.data = data]})

Sent(k, kind) ==
    /\ BagIn(k, requests)
    /\ k.kind = kind
    /\ k.phase = "sent"

\* GET list
ServeList(k) ==
    /\ Sent(k, "fetch")
    /\ Reply(k, "Listed", listByRecipient(store))
    /\ UNCHANGED <<clientVars, lifecycle, commands, serverVars>>

\* POST markRead/{id}
ServeMarkRead(k) ==
    /\ Sent(k, "mark_read")
    /\ LET r == markRead(store, k.id)
       IN  /\ store' = r.store
           /\ Reply(k, r.outcome, <<>>)
    /\ UNCHANGED <<clientVars, lifecycle, commands, grants, acceptLog>>

\* POST markAllRead
ServeMarkAllRead(k) ==
    /\ Sent(k, "mark_all_read")
    /\ LET r == markAllRead(store)
       IN  /\ store' = r.store
           /\ Reply(k, r.outcome, <<r.count>>)
    /\ UNCHANGED <<clientVars, lifecycle, commands, grants, acceptLog>>

\* POST acceptInvitation/{id}
ServeAcceptInvitation(k) ==
    /\ Sent(k, "accept_invitation")
    /\ \E grantOk \in BOOLEAN :
        LET id == k.id
            r == acceptInvitation(store, grants, id, grantOk)
        IN  /\ store' = r.store
            /\ grants' = r.grants
            /\ acceptLog' = [acceptLog EXCEPT ![id] = Append(@, r.outcome)]
            /\ Reply(k, r.outcome, <<>>)
    /\ UNCHANGED <<clientVars, lifecycle, commands>>

---------------------------------------------------------------------------
\* notificationsService: each call posts one request and resolves with the
\* server's answer.

Post(kind, id) == requests' = requests (+) SetToBag({Request(kind, id)})

\* The awaited promise of request k may settle as resolved: the server has
\* answered it with a success status.
Resolved(k, kind) ==
    /\ BagIn(k, requests)
    /\ k.kind = kind
    /\ k.phase = "replied"
    /\ k.outcome \in SuccessOutcomes

\* The awaited promise of request k may settle as rejected: the server has
\* answered it with an error status (net = FALSE), or the request or its
\* answer is lost on the network (net = TRUE), before or after the server
\* handled it.
Rejected(k, kind, net) ==
    /\ BagIn(k, requests)
    /\ k.kind = kind
    /\ \/ net
       \/ /\ k.phase = "replied"
          /\ k.outcome \notin SuccessOutcomes

\* error?.response?.data?.detail || fallback
Message(k, net, fallback) == IF net THEN fallback ELSE k.outcome

Settle(k) == requests' = requests (-) SetToBag({k})

---------------------------------------------------------------------------
\* The component.

componentDidMount ==
    /\ lifecycle = "constructed"
    /\ lifecycle' = "mounted"
    \* loadNotifications, up to its await
    /\ loading' = TRUE
    /\ error' = NoMessage
    /\ info' = NoMessage
    /\ Post("fetch", NoId)
    /\ UNCHANGED <<notifications, acceptingId, markingIds, markAllInProgress,
                   commands, serverVars>>

componentWillUnmount ==
    /\ lifecycle = "mounted"
    /\ lifecycle' = "unmounted"
    /\ UNCHANGED <<clientVars, requests, commands, serverVars>>

IsUnread(n) == n.is_read = FALSE

\* loadNotifications installing only the unread part of the answer.
LoadResolvedUnreadOnly(k) ==
    /\ Resolved(k, "fetch")
    /\ Settle(k)
    /\ IF isMounted
       THEN /\ notifications' = SelectSeq(k.data, IsUnread)
            /\ loading' = FALSE
       ELSE UNCHANGED <<notifications, loading>>
    /\ UNCHANGED <<error, info, acceptingId, markingIds, markAllInProgress,
                   lifecycle, commands, serverVars>>

\* loadNotifications, after its await resolved
LoadResolved(k) ==
    /\ Resolved(k, "fetch")
    /\ Settle(k)
    /\ IF isMounted
       THEN /\ notifications' = k.data
            /\ loading' = FALSE
       ELSE UNCHANGED <<notifications, loading>>
    /\ UNCHANGED <<error, info, acceptingId, markingIds, markAllInProgress,
                   lifecycle, commands, serverVars>>

\* The catch of loadNotifications leaving loading set.
LoadRejectedKeepsLoading(k, net) ==
    /\ Rejected(k, "fetch", net)
    /\ Settle(k)
    /\ IF isMounted
       THEN error' = Message(k, net, "Unable to load notifications.")
       ELSE UNCHANGED error
    /\ UNCHANGED <<notifications, loading, info, acceptingId, markingIds,
                   markAllInProgress, lifecycle, commands, serverVars>>

\* loadNotifications, after its await rejected
LoadRejected(k, net) ==
    /\ Rejected(k, "fetch", net)
    /\ Settle(k)
    /\ IF isMounted
       THEN /\ error' = Message(k, net, "Unable to load notifications.")
            /\ loading' = FALSE
       ELSE UNCHANGED <<error, loading>>
    /\ UNCHANGED <<notifications, info, acceptingId, markingIds,
                   markAllInProgress, lifecycle, commands, serverVars>>

\* renderContent: the list items, and so their buttons, are rendered once
\* loading is over.
Rendered(i) ==
    /\ isMounted
    /\ loading = FALSE
    /\ i \in DOMAIN notifications

\* The Accept branch shown for accepted invitations too.
ShowsAcceptIgnoresAccepted(n) ==
    /\ n.notification_type = "project_invitation"
    /\ n.invitation.present

\* renderNotificationActions: the branch with the Accept button
ShowsAccept(n) ==
    /\ n.notification_type = "project_invitation"
    /\ n.invitation.present
    /\ n.invitation.accepted # TRUE

\* disabled= of the Accept Invitation button
AcceptDisabled(n) == acceptingId = n.id

\* The Mark as read button with its in-flight check left out.
MarkReadDisabledNoInFlight(n) ==
    IF ShowsAccept(n) THEN FALSE ELSE n.is_read

\* disabled= of the Mark as read button, in either branch
MarkReadDisabled(n) ==
    IF ShowsAccept(n)
    THEN n.id \in markingIds
    ELSE n.is_read \/ n.id \in markingIds

\* disabled= of the Mark all as read button
MarkAllDisabled == markAllInProgress

\* handleMarkRead applying the transition before the request is answered.
handleMarkReadOptimistic(i) ==
    /\ Rendered(i)
    /\ ~MarkReadDisabled(notifications[i])
    /\ commands < MaxCommands
    /\ IF notifications[i].is_read
       THEN UNCHANGED <<notifications, markingIds, requests, commands>>
       ELSE /\ markingIds' = markingIds \cup {notifications[i].id}
            /\ notifications' = [notifications EXCEPT ![i].is_read = TRUE]
            /\ Post("mark_read", notifications[i].id)
            /\ commands' = commands + 1
    /\ UNCHANGED <<loading, error, info, acceptingId, markAllInProgress,
                   lifecycle, serverVars>>

\* handleMarkRead without its early return for a read notification.
handleMarkReadAgain(i) ==
    /\ Rendered(i)
    /\ ~MarkReadDisabled(notifications[i])
    /\ commands < MaxCommands
    /\ markingIds' = markingIds \cup {notifications[i].id}
    /\ Post("mark_read", notifications[i].id)
    /\ commands' = commands + 1
    /\ UNCHANGED <<notifications, loading, error, info, acceptingId,
                   markAllInProgress, lifecycle, serverVars>>

\* handleMarkRead, up to its await; the click needs the button enabled.
handleMarkRead(i) ==
    /\ Rendered(i)
    /\ ~MarkReadDisabled(notifications[i])
    /\ commands < MaxCommands
    /\ IF notifications[i].is_read
       THEN UNCHANGED <<markingIds, requests, commands>>
       ELSE /\ markingIds' = markingIds \cup {notifications[i].id}
            /\ Post("mark_read", notifications[i].id)
            /\ commands' = commands + 1
    /\ UNCHANGED <<notifications, loading, error, info, acceptingId,
                   markAllInProgress, lifecycle, serverVars>>

\* The map of handleMarkRead flipping the flag instead of setting it.
MarkReadPatchToggle(ns, id) ==
    [i \in DOMAIN ns |->
        IF ns[i].id = id THEN [ns[i] EXCEPT !.is_read = ~@] ELSE ns[i]]

\* The map of handleMarkRead without its test of the id.
MarkReadPatchEvery(ns, id) ==
    [i \in DOMAIN ns |-> [ns[i] EXCEPT !.is_read = TRUE]]

\* notifications.map(n => n.id === id ? { ...n, is_read: true } : n)
MarkReadPatch(ns, id) ==
    [i \in DOMAIN ns |->
        IF ns[i].id = id THEN [ns[i] EXCEPT !.is_read = TRUE] ELSE ns[i]]

\* handleMarkRead, after its await resolved
MarkReadResolved(k) ==
    /\ Resolved(k, "mark_read")
    /\ Settle(k)
    /\ IF isMounted
       THEN /\ notifications' = MarkReadPatch(notifications, k.id)
            /\ markingIds' = markingIds \ {k.id}
       ELSE UNCHANGED <<notifications, markingIds>>
    /\ UNCHANGED <<loading, error, info, acceptingId, markAllInProgress,
                   lifecycle, commands, serverVars>>

\* The catch of handleMarkRead applying the transition all the same.
MarkReadRejectedApplies(k, net) ==
    /\ Rejected(k, "mark_read", net)
    /\ Settle(k)
    /\ IF isMounted
       THEN /\ error' = Message(k, net, "Unable to mark notification as read.")
            /\ markingIds' = markingIds \ {k.id}
            /\ notifications' = MarkReadPatch(notifications, k.id)
       ELSE UNCHANGED <<error, markingIds, notifications>>
    /\ UNCHANGED <<loading, info, acceptingId, markAllInProgress, lifecycle,
                   commands, serverVars>>

\* handleMarkRead, after its await rejected
MarkReadRejected(k, net) ==
    /\ Rejected(k, "mark_read", net)
    /\ Settle(k)
    /\ IF isMounted
       THEN /\ error' = Message(k, net, "Unable to mark notification as read.")
            /\ markingIds' = markingIds \ {k.id}
       ELSE UNCHANGED <<error, markingIds>>
    /\ UNCHANGED <<notifications, loading, info, acceptingId,
                   markAllInProgress, lifecycle, commands, serverVars>>

\* handleMarkAll, up to its await; the button is in the page header, outside
\* the list.
handleMarkAll ==
    /\ isMounted
    /\ ~MarkAllDisabled
    /\ commands < MaxCommands
    /\ markAllInProgress' = TRUE
    /\ error' = NoMessage
    /\ info' = NoMessage
    /\ Post("mark_all_read", NoId)
    /\ commands' = commands + 1
    /\ UNCHANGED <<notifications, loading, acceptingId, markingIds, lifecycle,
                   serverVars>>

\* The map of handleMarkAll leaving project invitations alone.
MarkAllPatchSkipsInvitations(ns) ==
    [i \in DOMAIN ns |->
        IF ns[i].invitation.present THEN ns[i]
        ELSE [ns[i] EXCEPT !.is_read = TRUE]]

\* notifications.map(n => ({ ...n, is_read: true }))
MarkAllPatch(ns) == [i \in DOMAIN ns |-> [ns[i] EXCEPT !.is_read = TRUE]]

\* handleMarkAll, after its await resolved, setting the state without the
\* mounted check of setStateSafely.
MarkAllResolvedUnchecked(k) ==
    /\ Resolved(k, "mark_all_read")
    /\ Settle(k)
    /\ notifications' = MarkAllPatch(notifications)
    /\ markAllInProgress' = FALSE
    /\ info' = "All notifications marked as read."
    /\ UNCHANGED <<loading, error, acceptingId, markingIds, lifecycle,
                   commands, serverVars>>

\* handleMarkAll, after its await resolved
MarkAllResolved(k) ==
    /\ Resolved(k, "mark_all_read")
    /\ Settle(k)
    /\ IF isMounted
       THEN /\ notifications' = MarkAllPatch(notifications)
            /\ markAllInProgress' = FALSE
            /\ info' = "All notifications marked as read."
       ELSE UNCHANGED <<notifications, markAllInProgress, info>>
    /\ UNCHANGED <<loading, error, acceptingId, markingIds, lifecycle,
                   commands, serverVars>>

\* The catch of handleMarkAll leaving markAllInProgress set.
MarkAllRejectedKeepsMarker(k, net) ==
    /\ Rejected(k, "mark_all_read", net)
    /\ Settle(k)
    /\ IF isMounted
       THEN error' = Message(k, net,
                             "Unable to mark all notifications as read.")
       ELSE UNCHANGED error
    /\ UNCHANGED <<notifications, loading, info, acceptingId, markingIds,
                   markAllInProgress, lifecycle, commands, serverVars>>

\* handleMarkAll, after its await rejected
MarkAllRejected(k, net) ==
    /\ Rejected(k, "mark_all_read", net)
    /\ Settle(k)
    /\ IF isMounted
       THEN /\ error' = Message(k, net,
                                "Unable to mark all notifications as read.")
            /\ markAllInProgress' = FALSE
       ELSE UNCHANGED <<error, markAllInProgress>>
    /\ UNCHANGED <<notifications, loading, info, acceptingId, markingIds,
                   lifecycle, commands, serverVars>>

\* handleAcceptInvitation, up to its await; the click needs the button
\* rendered and enabled.
handleAcceptInvitation(i) ==
    /\ Rendered(i)
    /\ ShowsAccept(notifications[i])
    /\ ~AcceptDisabled(notifications[i])
    /\ commands < MaxCommands
    /\ acceptingId' = notifications[i].id
    /\ error' = NoMessage
    /\ info' = NoMessage
    /\ Post("accept_invitation", notifications[i].id)
    /\ commands' = commands + 1
    /\ UNCHANGED <<notifications, loading, markingIds, markAllInProgress,
                   lifecycle, serverVars>>

\* The map of handleAcceptInvitation without is_read: true.
AcceptPatchKeepsUnread(ns, id) ==
    [i \in DOMAIN ns |->
        IF ns[i].id = id
        THEN [ns[i] EXCEPT !.invitation =
                               IF @.present THEN [@ EXCEPT !.accepted = TRUE]
                               ELSE @]
        ELSE ns[i]]

\* notifications.map(n => n.id === id ? { ...n, is_read: true,
\*     invitation: n.invitation ? { ...n.invitation, accepted: true }
\*                              : n.invitation } : n)
AcceptPatch(ns, id) ==
    [i \in DOMAIN ns |->
        IF ns[i].id = id
        THEN [ns[i] EXCEPT !.is_read = TRUE,
                           !.invitation =
                               IF @.present THEN [@ EXCEPT !.accepted = TRUE]
                               ELSE @]
        ELSE ns[i]]

\* handleAcceptInvitation, after its await resolved
AcceptResolved(k) ==
    /\ Resolved(k, "accept_invitation")
    /\ Settle(k)
    /\ IF isMounted
       THEN /\ notifications' = AcceptPatch(notifications, k.id)
            /\ acceptingId' = NoId
            /\ info' = "You have joined the project."
       ELSE UNCHANGED <<notifications, acceptingId, info>>
    /\ UNCHANGED <<loading, error, markingIds, markAllInProgress, lifecycle,
                   commands, serverVars>>

\* handleAcceptInvitation, after its await rejected
AcceptRejected(k, net) ==
    /\ Rejected(k, "accept_invitation", net)
    /\ Settle(k)
    /\ IF isMounted
       THEN /\ error' = Message(k, net, "Unable to accept invitation.")
            /\ acceptingId' = NoId
       ELSE UNCHANGED <<error, acceptingId>>
    /\ UNCHANGED <<notifications, loading, info, markingIds,
                   markAllInProgress, lifecycle, commands, serverVars>>

\* toggle of the error alert
DismissError ==
    /\ isMounted
    /\ error # NoMessage
    /\ error' = NoMessage
    /\ UNCHANGED <<notifications, loading, info, acceptingId, markingIds,
                   markAllInProgress, lifecycle, requests, commands,
                   serverVars>>

\* toggle of the success alert
DismissInfo ==
    /\ isMounted
    /\ info # NoMessage
    /\ info' = NoMessage
    /\ UNCHANGED <<notifications, loading, error, acceptingId, markingIds,
                   markAllInProgress, lifecycle, requests, commands,
                   serverVars>>

---------------------------------------------------------------------------
\* Every step of the page and of the server while the page stays open.
NextMounted ==
    \/ componentDidMount
    \/ \E i \in 1..NumIds : handleMarkRead(i)
    \/ handleMarkAll
    \/ \E i \in 1..NumIds : handleAcceptInvitation(i)
    \/ DismissError
    \/ DismissInfo
    \/ \E k \in BagToSet(requests) : ServeList(k)
    \/ \E k \in BagToSet(requests) : ServeMarkRead(k)
    \/ \E k \in BagToSet(requests) : ServeMarkAllRead(k)
    \/ \E k \in BagToSet(requests) : ServeAcceptInvitation(k)
    \/ \E k \in BagToSet(requests) : LoadResolved(k)
    \/ \E k \in BagToSet(requests), net \in BOOLEAN : LoadRejected(k, net)
    \/ \E k \in BagToSet(requests) : MarkReadResolved(k)
    \/ \E k \in BagToSet(requests), net \in BOOLEAN : MarkReadRejected(k, net)
    \/ \E k \in BagToSet(requests) : MarkAllResolved(k)
    \/ \E k \in BagToSet(requests), net \in BOOLEAN : MarkAllRejected(k, net)
    \/ \E k \in BagToSet(requests) : AcceptResolved(k)
    \/ \E k \in BagToSet(requests), net \in BOOLEAN : AcceptRejected(k, net)

\* Every step, the user leaving the page included.
Next ==
    \/ NextMounted
    \/ componentWillUnmount

Spec == Init /\ [][Next]_vars

\* The runs in which the user does not leave the page.  Unmounting is final
\* and changes nothing but _isMounted, and the server and the network do not
\* see it: every mounted state, and every state of the requests and of the
\* server, that a run of Spec reaches is reached by a run of SpecMounted.
SpecMounted == Init /\ [][NextMounted]_vars

---------------------------------------------------------------------------
\* The awaited promise of some request settles and the handler that awaits it
\* continues.
Settles ==
    \E k \in BagToSet(requests) :
        \/ LoadResolved(k)
        \/ MarkReadResolved(k)
        \/ MarkAllResolved(k)
        \/ AcceptResolved(k)
        \/ \E net \in BOOLEAN :
             \/ LoadRejected(k, net)
             \/ MarkReadRejected(k, net)
             \/ MarkAllRejected(k, net)
             \/ AcceptRejected(k, net)

\* The runs in which the user does not leave the page and every request
\* eventually receives a response, success or failure: while requests are
\* outstanding one of them is eventually settled, and the event loop then
\* runs the continuation of the handler awaiting it.
SpecResponsive == SpecMounted /\ WF_vars(Settles)

---------------------------------------------------------------------------

\* Every step of the page and of the server while the page stays open and no
\* awaited service call is rejected.
NextReliable ==
    \/ componentDidMount
    \/ \E i \in 1..NumIds : handleMarkRead(i)
    \/ handleMarkAll
    \/ \E i \in 1..NumIds : handleAcceptInvitation(i)
    \/ DismissInfo
    \/ \E k \in BagToSet(requests) : ServeList(k)
    \/ \E k \in BagToSet(requests) : ServeMarkRead(k)
    \/ \E k \in BagToSet(requests) : ServeMarkAllRead(k)
    \/ \E k \in BagToSet(requests) : ServeAcceptInvitation(k)
    \/ \E k \in BagToSet(requests) : LoadResolved(k)
    \/ \E k \in BagToSet(requests) : MarkReadResolved(k)
    \/ \E k \in BagToSet(requests) : MarkAllResolved(k)
    \/ \E k \in BagToSet(requests) : AcceptResolved(k)

\* The runs of one session in which the user does not leave the page and no
\* request fails: the catch branches never run, and a request the server
\* answers with an error status stays outstanding.
SpecReliable == Init /\ [][NextReliable]_vars

\* Requests of this session the component has sent and not yet seen settle.
Outstanding(kind, id) ==
    LET S == {r \in BagToSet(requests) : r.kind = kind /\ r.id = id}
    IN  BagCardinality([r \in S |-> CopiesIn(r, requests)])

Local(id) ==
    LET i == CHOOSE j \in DOMAIN notifications : notifications[j].id = id
    IN  notifications[i]

Listed(id) == \E j \in DOMAIN notifications : notifications[j].id = id

\* C1: for every notification id X, while an accept-invitation request for X
\* of this session is outstanding, no second accept request for X is sent:
\* at most one accept request per id is outstanding at any time.
C1_NoSecondAcceptWhileOutstanding ==
    \A x \in Ids : Outstanding("accept_invitation", x) <= 1

\* C3: no command is issued for an item that a command of another kind is
\* mutating: a mark-read request for X is never outstanding together with an
\* accept request for X or with a mark-all request.
C3_NoCrossKindOverlap ==
    \A x \in Ids :
        Outstanding("mark_read", x) > 0 =>
            /\ Outstanding("accept_invitation", x) = 0
            /\ Outstanding("mark_all_read", NoId) = 0

\* C4: a mark-read action on an id in markingIds is rejected: for every id at
\* most one mark-read request of this session is outstanding, and while the
\* component is mounted that id is in markingIds, which disables its button.
C4_OneMarkReadPerId ==
    \A x \in Ids :
        /\ Outstanding("mark_read", x) <= 1
        /\ (isMounted /\ Outstanding("mark_read", x) = 1) =>
               /\ x \in markingIds
               /\ MarkReadDisabled(Local(x))

\* C4 witness: a mark-read request for an unread, still rendered notification
\* is outstanding, so only the in-flight set keeps a second click away.
C4_Witness ==
    \E x \in Ids :
        /\ isMounted
        /\ loading = FALSE
        /\ Outstanding("mark_read", x) = 1
        /\ x \in markingIds
        /\ Listed(x)
        /\ Local(x).is_read = FALSE
        /\ commands < MaxCommands

\* Number of entries of a sequence that are in a set.
Count(seq, set) == Cardinality({i \in DOMAIN seq : seq[i] \in set})

\* C2 as stated: of the accept requests handled on one notification id,
\* exactly one issues a membership grant and observes Accepted, and every
\* other one observes AlreadyAccepted.
C2_ExactlyOneObservesAccepted ==
    \A x \in Ids :
        acceptLog[x] # <<>> =>
            /\ grants[x] = 1
            /\ Count(acceptLog[x], {"Accepted"}) = 1
            /\ Count(acceptLog[x], {"Accepted", "AlreadyAccepted"})
                   = Len(acceptLog[x])

\* C2 amended: of the accept requests handled on one pending invitation,
\* exactly one, the first handled, wins the accepted transition and issues
\* the one membership grant; it observes Accepted, or Rejected when the grant
\* itself fails; every other one observes AlreadyAccepted and issues no grant.
C2_ExactlyOneGrantIssued ==
    \A x \in Ids :
        acceptLog[x] # <<>> =>
            /\ grants[x] = 1
            /\ acceptLog[x][1] \in {"Accepted", "Rejected"}
            /\ \A i \in 2..Len(acceptLog[x]) :
                   acceptLog[x][i] = "AlreadyAccepted"
            /\ store[x].invitation.accepted

\* C2 witness: two accept requests on the same id have been handled, the
\* first was Accepted and the second AlreadyAccepted.
C2_Witness ==
    \E x \in Ids :
        /\ Len(acceptLog[x]) >= 2
        /\ acceptLog[x][1] = "Accepted"
        /\ acceptLog[x][2] = "AlreadyAccepted"
        /\ grants[x] = 1

\* This step sends a request of the kind for the id.
Issues(kind, id) == Outstanding(kind, id)' = Outstanding(kind, id) + 1

C7_AcceptedImpliesRead ==
    \A i \in DOMAIN notifications :
        notifications[i].invitation.accepted => notifications[i].is_read

\* C7 witness: a successful accept response was processed for an invitation
\* the server accepted in this session; both flags are true.
C7_Witness ==
    \E x \in Ids :
        /\ isMounted
        /\ info = "You have joined the project."
        /\ acceptLog[x] # <<>>
        /\ Listed(x)
        /\ Local(x).invitation.accepted
        /\ Local(x).is_read

\* C8: no step reduces state: no notification of the local view has is_read
\* go from true to false or invitation.accepted go from true to false.
C8_NoReduction ==
    [][\A i \in DOMAIN notifications, j \in DOMAIN notifications' :
         notifications[i].id = notifications'[j].id =>
            /\ notifications[i].is_read => notifications'[j].is_read
            /\ notifications[i].invitation.accepted =>
                   notifications'[j].invitation.accepted]_vars

\* C8 witness: responses interleave on one notification: its accept was
\* applied while its mark-read request is still outstanding.
C8_Witness ==
    \E x \in Ids :
        /\ isMounted
        /\ Outstanding("mark_read", x) = 1
        /\ Listed(x)
        /\ Local(x).is_read
        /\ Local(x).invitation.accepted

Unread(ns) == Cardinality({i \in DOMAIN ns : ns[i].is_read = FALSE})

\* C9: when the success response of mark-all is processed, every notification
\* of the local view, previously unread or read, has is_read = true, so the
\* list shows 0 unread; the list keeps its members.
C9_MarkAllReadsAll ==
    [][\A k \in BagToSet(requests) :
         (isMounted /\ MarkAllResolved(k)) =>
            /\ \A i \in DOMAIN notifications' : notifications'[i].is_read
            /\ Unread(notifications') = 0
            /\ Len(notifications') = Len(notifications)]_vars

\* C9 witness: mark-all succeeded on a loaded list holding a notification
\* that was unread (its own mark-read request is still outstanding); it is
\* read now.
C9_Witness ==
    \E x \in Ids :
        /\ isMounted
        /\ info = "All notifications marked as read."
        /\ markAllInProgress = FALSE
        /\ x \in markingIds
        /\ Listed(x)
        /\ Local(x).is_read
        /\ Unread(notifications) = 0

\* C10: when a list fetch succeeds, the local list becomes the sequence the
\* server returned, which is the recipient's notifications as the store held
\* them when it handled the fetch, newest first.
C10_LoadReplaces ==
    [][\A k \in BagToSet(requests) :
         /\ (isMounted /\ LoadResolved(k)) =>
                /\ notifications' = k.data
                /\ loading' = FALSE
         /\ ServeList(k) =>
                Outstanding("fetch", NoId)' = 1 /\
                \A r \in BagToSet(requests') :
                    r.kind = "fetch" => r.data = listByRecipient(store)
      ]_vars

\* C10 witness: the fetch succeeded while a mark-all request, sent before the
\* list arrived, is still outstanding; the local list is the server's.
C10_Witness ==
    /\ isMounted
    /\ loading = FALSE
    /\ Len(notifications) = NumIds
    /\ Outstanding("mark_all_read", NoId) = 1
    /\ Unread(notifications) > 0

\* C11: an accept response with status 200 (Accepted or AlreadyAccepted)
\* leaves the success message set and no error message set, and a failed
\* accept response (error status or network error) leaves the error message
\* set and no success message set.
C11_AcceptOutcomeMessage ==
    [][\A k \in BagToSet(requests) :
         k.kind = "accept_invitation" =>
            /\ (isMounted /\ AcceptResolved(k)) =>
                   /\ info' # NoMessage
                   /\ error' = NoMessage
            /\ (isMounted /\ \E net \in BOOLEAN : AcceptRejected(k, net)) =>
                   /\ error' # NoMessage
                   /\ info' = NoMessage]_vars

\* C12: mark-read is idempotent.  A mark-read action on a notification the
\* local view shows as read is a no-op: it changes no state, and every
\* mark-read request that is sent is for a notification shown unread.  When
\* a success response of mark-read is processed the notification is read,
\* and nothing changes if it was read already; applying the transition twice
\* gives what applying it once gives.
C12_MarkReadIdempotent ==
    [][/\ \A i \in DOMAIN notifications :
            (notifications[i].is_read /\ handleMarkRead(i)) => UNCHANGED vars
       /\ BagCardinality(requests') > BagCardinality(requests) =>
            \A x \in Ids :
                Issues("mark_read", x) =>
                    /\ Listed(x)
                    /\ Local(x).is_read = FALSE
       /\ BagCardinality(requests') < BagCardinality(requests) =>
            \A k \in BagToSet(requests) :
                (isMounted /\ MarkReadResolved(k)) =>
                    /\ Local(k.id)'.is_read
                    /\ Local(k.id).is_read => notifications' = notifications
                    /\ MarkReadPatch(notifications', k.id) = notifications'
      ]_vars

\* C12 witness: the page shows a pending invitation as read, its Mark as read
\* button enabled, while the mark-read request sent for another notification
\* is outstanding: a mark-read action on the read one is possible and is the
\* no-op.
C12_Witness ==
    \E i \in DOMAIN notifications :
        /\ Rendered(i)
        /\ notifications[i].is_read
        /\ ShowsAccept(notifications[i])
        /\ ~MarkReadDisabled(notifications[i])
        /\ commands < MaxCommands
        /\ \E x \in Ids \ {notifications[i].id} :
               Outstanding("mark_read", x) = 1

\* No notification of the list of another type than project_invitation has
\* an accept request outstanding or an invitation record.
NoAcceptForOtherTypes ==
    \A i \in DOMAIN notifications :
        notifications[i].notification_type # "project_invitation" =>
            /\ Outstanding("accept_invitation", notifications[i].id) = 0
            /\ notifications[i].invitation = NoInvitation

\* C13: an accept request is sent only for a notification the local view
\* shows as a project_invitation with an invitation record whose accepted
\* flag is not true.  For a notification of another type, or one shown
\* accepted, no step sends an accept request, and a notification of another
\* type never has an accept request outstanding.
C13_AcceptOnlyPendingInvitation ==
    [][/\ BagCardinality(requests') > BagCardinality(requests) =>
            \A x \in Ids :
                Issues("accept_invitation", x) =>
                    /\ Listed(x)
                    /\ Local(x).notification_type = "project_invitation"
                    /\ Local(x).invitation.present
                    /\ Local(x).invitation.accepted # TRUE
                    /\ notifications' = notifications
       /\ NoAcceptForOtherTypes'
      ]_vars

\* C13 witness: an accept request is outstanding for a pending invitation
\* while the list also shows an accepted invitation and none is outstanding
\* for that one.
C13_Witness ==
    \E x \in Ids, y \in Ids :
        /\ Rendered(1)
        /\ Listed(x)
        /\ Listed(y)
        /\ Outstanding("accept_invitation", x) = 1
        /\ ShowsAccept(Local(x))
        /\ Local(y).invitation.accepted
        /\ Outstanding("accept_invitation", y) = 0

\* Some in-flight marker is set.
InFlight ==
    \/ markingIds # {}
    \/ acceptingId # NoId
    \/ markAllInProgress

\* C14: in-flight markers are always released: when every request eventually
\* receives a response and the component stays mounted, a state with a marker
\* set is followed by one with markingIds empty, acceptingId null and
\* markAllInProgress false, and no id stays in markingIds or acceptingId
\* forever.
C14_MarkersReleased == InFlight ~> ~InFlight

\* C14 witness: all the commands were issued, a mark-all request among them
\* failed, every request is settled and no marker is set.
C14_Witness ==
    /\ isMounted
    /\ commands = MaxCommands
    /\ requests = EmptyBag
    /\ error = "Unable to mark all notifications as read."
    /\ ~InFlight

\* C15: in every reachable state of a mounted component the in-flight markers
\* match the outstanding requests: an id is in markingIds exactly when a
\* mark-read request for it is outstanding, acceptingId equals X whenever an
\* accept request for X is outstanding, and markAllInProgress is true exactly
\* when a mark-all request is outstanding.
C15_MarkersMatchOutstanding ==
    isMounted =>
        /\ \A x \in Ids :
              /\ x \in markingIds <=> Outstanding("mark_read", x) > 0
              /\ Outstanding("accept_invitation", x) > 0 => acceptingId = x
        /\ markAllInProgress <=> Outstanding("mark_all_read", NoId) > 0

\* The parts of C15 about markingIds and markAllInProgress alone.
C15_MarkReadAndMarkAllMarkers ==
    isMounted =>
        /\ \A x \in Ids : x \in markingIds <=> Outstanding("mark_read", x) > 0
        /\ markAllInProgress <=> Outstanding("mark_all_read", NoId) > 0

\* C16: quiescent agreement with the server of record: in a run of one
\* session in which no request has failed, whenever no request is
\* outstanding every notification of the local view has the same is_read and
\* invitation.accepted as the server's record of it.
C16_QuiescentAgreement ==
    (isMounted /\ loading = FALSE /\ requests = EmptyBag) =>
        \A i \in DOMAIN notifications :
            /\ notifications[i].is_read = store[notifications[i].id].is_read
            /\ notifications[i].invitation.accepted
                   = store[notifications[i].id].invitation.accepted

\* C17: the success message and the error message are never shown together:
\* in every reachable state at most one of info and error is non-null.
C17_InfoErrorExclusive == info = NoMessage \/ error = NoMessage

\* The fields of a notification that no command changes.
Identity(n) ==
    <<n.id, n.notification_type, n.title, n.message, n.project, n.created_at,
      n.invitation.present>>

\* C18: processing a successful mark-read or accept response for notification
\* X changes only X: every other notification of the local view and the
\* order and membership of the list are unchanged, and so are X's id, type,
\* title, message, project and created_at; mark-read leaves X's invitation
\* record unchanged too.
C18_ResponseChangesOnlyX ==
    [][BagCardinality(requests') < BagCardinality(requests) =>
         \A k \in BagToSet(requests) :
             (isMounted /\ (MarkReadResolved(k) \/ AcceptResolved(k))) =>
                 /\ DOMAIN notifications' = DOMAIN notifications
                 /\ \A i \in DOMAIN notifications :
                       /\ notifications[i].id # k.id =>
                              notifications'[i] = notifications[i]
                       /\ Identity(notifications'[i])
                              = Identity(notifications[i])
                       /\ k.kind = "mark_read" =>
                              notifications'[i].invitation
                                  = notifications[i].invitation
      ]_vars

\* C18 witness: the success response of an accept request was processed for
\* one invitation, which is shown accepted, and the other notification of the
\* list is still unread.
C18_Witness ==
    \E x \in Ids, y \in Ids :
        /\ isMounted
        /\ x # y
        /\ info = "You have joined the project."
        /\ acceptLog[x] # <<>>
        /\ Listed(x)
        /\ Listed(y)
        /\ Local(x).invitation.accepted
        /\ Local(y).is_read = FALSE
        /\ store[y].is_read = FALSE

\* C19: after the component is unmounted no step, and so no response to a
\* request that was still outstanding (load, mark-read, mark-all or accept,
\* success or failure), changes any field of the component state, and the
\* component stays unmounted.
C19_FrozenAfterUnmount ==
    [][lifecycle = "unmounted" =>
         /\ UNCHANGED clientVars
         /\ lifecycle' = "unmounted"]_vars

\* C19 witness: the component was unmounted while loading with a mark-all
\* request outstanding; both requests have settled since and the state still
\* shows loading and markAllInProgress.
C19_Witness ==
    /\ lifecycle = "unmounted"
    /\ requests = EmptyBag
    /\ loading
    /\ markAllInProgress
    /\ notifications = <<>>
    /\ error = NoMessage
    /\ info = NoMessage

\* While the component is mounted it shows loading exactly while its list
\* fetch is outstanding.
LoadingWhileFetching ==
    isMounted => (loading <=> Outstanding("fetch", NoId) > 0)

\* C20: the initial list fetch always leaves the loading state: when the
\* fetch settles while the component is mounted, loading becomes false on
\* success and on failure, and on failure the notification list is left
\* unchanged (empty) and the error message is set; loading is shown exactly
\* while the fetch is outstanding.
C20_LoadingEnds ==
    [][/\ LoadingWhileFetching'
       /\ (isMounted /\ loading /\ ~loading') =>
            \A k \in BagToSet(requests) :
                k.kind = "fetch" =>
                    /\ \/ LoadResolved(k)
                       \/ \E net \in BOOLEAN : LoadRejected(k, net)
                    /\ (\E net \in BOOLEAN : LoadRejected(k, net)) =>
                           /\ notifications' = notifications
                           /\ notifications' = <<>>
                           /\ error' # NoMessage
      ]_vars

\* C20 witness: the fetch failed while the component was mounted: loading is
\* over, the list is empty and the load error is shown.
C20_Witness ==
    /\ isMounted
    /\ loading = FALSE
    /\ Outstanding("fetch", NoId) = 0
    /\ notifications = <<>>
    /\ error = "Unable to load notifications."
    /\ commands = 0

====
